---- MODULE Spec2Model ----
(***************************************************************************)
(* Model of src/src/neurodiversity.tsx: the NeurodiversityMapMockup        *)
(* component.  The state is the component's useState cells, the position   *)
(* of the asynchronous loadDirect, the canvas' client size and what the    *)
(* last run of the render effect and the last click used.  The useMemo     *)
(* values (extent, ellipses, clusterColorById, nodeById, edgeSegments) are *)
(* pure functions of the state and are operators here.                     *)
(*                                                                         *)
(* JavaScript values are tagged records; strings are sequences of          *)
(* one-character strings so that trim, toLowerCase, String(), Number()     *)
(* and the default sort order are computed, not assumed.  Numbers are      *)
(* integers; arithmetic is exact (no floating-point rounding).             *)
(***************************************************************************)
EXTENDS Integers, Sequences, FiniteSets

(***************************************************************************)
(* JavaScript values                                                       *)
(***************************************************************************)
Undefined == [t |-> "undefined"]
Null      == [t |-> "null"]
NaN       == [t |-> "NaN"]
PosInf    == [t |-> "Infinity"]
NegInf    == [t |-> "-Infinity"]
Num(n)    == [t |-> "number", n |-> n]
Str(s)    == [t |-> "string", s |-> s]

IsFinite(v) == v.t = "number"
IsNullish(v) == v.t \in {"undefined", "null"}

\* a ?? b ?? c ... : the first operand that is neither null nor undefined,
\* the last operand when all are.
RECURSIVE Coalesce(_)
Coalesce(vs) ==
    IF Len(vs) = 1 \/ ~IsNullish(Head(vs)) THEN Head(vs) ELSE Coalesce(Tail(vs))

\* r.col : a column the row does not have reads as undefined.
Get(r, col) == IF col \in DOMAIN r THEN r[col] ELSE Undefined

\* r.a ?? r.b ?? ... ?? dflt
Field(r, cols, dflt) == Coalesce([i \in 1..Len(cols) |-> Get(r, cols[i])] \o <<dflt>>)

(***************************************************************************)
(* Strings                                                                 *)
(***************************************************************************)
Digits == <<"0", "1", "2", "3", "4", "5", "6", "7", "8", "9">>
Upper  == <<"A", "B", "C", "D", "E", "F", "G", "H", "I", "J", "K", "L", "M",
            "N", "O", "P", "Q", "R", "S", "T", "U", "V", "W", "X", "Y", "Z">>
Lower  == <<"a", "b", "c", "d", "e", "f", "g", "h", "i", "j", "k", "l", "m",
            "n", "o", "p", "q", "r", "s", "t", "u", "v", "w", "x", "y", "z">>

IndexIn(seq, c) == CHOOSE i \in 1..Len(seq) : seq[i] = c
Occurs(seq, c) == \E i \in 1..Len(seq) : seq[i] = c

\* UTF-16 code unit of the characters the model uses.
CharCode(c) ==
    IF c = " " THEN 32
    ELSE IF c = "-" THEN 45
    ELSE IF Occurs(Digits, c) THEN 47 + IndexIn(Digits, c)
    ELSE IF Occurs(Upper, c) THEN 64 + IndexIn(Upper, c)
    ELSE IF c = "_" THEN 95
    ELSE 96 + IndexIn(Lower, c)

LowerChar(c) == IF Occurs(Upper, c) THEN Lower[IndexIn(Upper, c)] ELSE c

\* String.prototype.toLowerCase
ToLowerCase(s) == [i \in 1..Len(s) |-> LowerChar(s[i])]

\* String.prototype.trim
RECURSIVE TrimLeft(_)
TrimLeft(s) == IF s # <<>> /\ Head(s) = " " THEN TrimLeft(Tail(s)) ELSE s
RECURSIVE TrimRight(_)
TrimRight(s) ==
    IF s # <<>> /\ s[Len(s)] = " " THEN TrimRight(SubSeq(s, 1, Len(s) - 1)) ELSE s
Trim(s) == TrimRight(TrimLeft(s))

\* Decimal digits of a natural number.
RECURSIVE NatDigits(_)
NatDigits(n) ==
    IF n < 10 THEN <<Digits[n + 1]>> ELSE NatDigits(n \div 10) \o <<Digits[(n % 10) + 1]>>

\* String(v)
JsString(v) ==
    CASE v.t = "string" -> v.s
      [] v.t = "number" -> IF v.n < 0 THEN <<"-">> \o NatDigits(-v.n) ELSE NatDigits(v.n)
      [] v.t = "null" -> <<"n", "u", "l", "l">>
      [] v.t = "undefined" -> <<"u", "n", "d", "e", "f", "i", "n", "e", "d">>
      [] v.t = "NaN" -> <<"N", "a", "N">>
      [] v.t = "Infinity" -> <<"I", "n", "f", "i", "n", "i", "t", "y">>
      [] v.t = "-Infinity" -> <<"-", "I", "n", "f", "i", "n", "i", "t", "y">>

IsDigits(s) == s # <<>> /\ \A i \in 1..Len(s) : Occurs(Digits, s[i])

RECURSIVE DigitsValue(_)
DigitsValue(s) ==
    IF s = <<>> THEN 0
    ELSE 10 * DigitsValue(SubSeq(s, 1, Len(s) - 1)) + (IndexIn(Digits, s[Len(s)]) - 1)

\* Number(string): surrounding white space is dropped, the empty string is 0,
\* an optionally signed run of digits is its value, anything else is NaN.
StringToNumber(s) ==
    LET u == Trim(s)
    IN  IF u = <<>> THEN Num(0)
        ELSE IF IsDigits(u) THEN Num(DigitsValue(u))
        ELSE IF Head(u) = "-" /\ IsDigits(Tail(u)) THEN Num(-DigitsValue(Tail(u)))
        ELSE NaN

\* Number(v)
ToNumber(v) ==
    CASE v.t = "string" -> StringToNumber(v.s)
      [] v.t = "null" -> Num(0)
      [] v.t = "undefined" -> NaN
      [] OTHER -> v

\* The truthiness of a value: if (v), v || w, !v.
Truthy(v) ==
    CASE v.t = "string" -> v.s # <<>>
      [] v.t = "number" -> v.n # 0
      [] v.t \in {"null", "undefined", "NaN"} -> FALSE
      [] OTHER -> TRUE

\* Lexicographic order on UTF-16 code units: the order of Array.prototype.sort()
\* without a comparator.
RECURSIVE StrLess(_, _)
StrLess(a, b) ==
    IF b = <<>> THEN FALSE
    ELSE IF a = <<>> THEN TRUE
    ELSE IF CharCode(Head(a)) # CharCode(Head(b)) THEN CharCode(Head(a)) < CharCode(Head(b))
    ELSE StrLess(Tail(a), Tail(b))

(***************************************************************************)
(* Numbers with the non-finite values of IEEE arithmetic                   *)
(***************************************************************************)
XNeg(a) ==
    CASE a.t = "number" -> Num(-a.n)
      [] a.t = "Infinity" -> NegInf
      [] a.t = "-Infinity" -> PosInf
      [] OTHER -> NaN

XAdd(a, b) ==
    IF a.t = "NaN" \/ b.t = "NaN" THEN NaN
    ELSE IF a.t = "number" /\ b.t = "number" THEN Num(a.n + b.n)
    ELSE IF a.t = "number" THEN b
    ELSE IF b.t = "number" THEN a
    ELSE IF a.t = b.t THEN a
    ELSE NaN

XSub(a, b) == XAdd(a, XNeg(b))

\* a * k for a finite k > 0
XTimes(a, k) == IF a.t = "number" THEN Num(a.n * k) ELSE a

\* a < b ; every comparison with NaN is false
XLess(a, b) ==
    IF a.t = "NaN" \/ b.t = "NaN" THEN FALSE
    ELSE IF a.t = "number" /\ b.t = "number" THEN a.n < b.n
    ELSE IF a.t = b.t THEN FALSE
    ELSE a.t = "-Infinity" \/ b.t = "Infinity"

\* Math.min(...vs) and Math.max(...vs) of finite numbers: Infinity and
\* -Infinity for no argument at all.
MathMin(vs) ==
    IF vs = <<>> THEN PosInf
    ELSE vs[CHOOSE i \in 1..Len(vs) : \A j \in 1..Len(vs) : ~XLess(vs[j], vs[i])]
MathMax(vs) ==
    IF vs = <<>> THEN NegInf
    ELSE vs[CHOOSE i \in 1..Len(vs) : \A j \in 1..Len(vs) : ~XLess(vs[i], vs[j])]

(***************************************************************************)
(* loadDirect: normalisation of the parsed rows                            *)
(* A parsed row is a function from the columns it has to their values      *)
(* (dynamicTyping: a number, a string, or null for an empty cell).         *)
(***************************************************************************)
IdCols      == <<"id", "ID", "user_id", "UserID">>
XCols       == <<"x_KPCA", "kpca_x", "KPCA_X", "X", "x", "KPCA1">>
YCols       == <<"y_KPCA", "kpca_y", "KPCA_Y", "Y", "y", "KPCA2">>
ClusterCols == <<"cluster", "Cluster", "clusters", "Clusters", "community",
                 "Community", "label", "Label", "comm_id", "comm">>
SourceCols  == <<"source_id", "source", "from", "i", "u", "SOURCE", "Source", "From">>
TargetCols  == <<"target_id", "target", "to", "j", "v", "TARGET", "Target", "To">>
WeightCols  == <<"weight", "w", "value", "sim", "similarity", "Weight", "W">>

\* r.a ?? r.b ?? ... with no default: the last column's value when all are nullish
Chain(r, cols) == Coalesce([i \in 1..Len(cols) |-> Get(r, cols[i])])

NanLike == {<<"n", "a", "n">>, <<"n", "o", "n", "e">>, <<"n", "u", "l", "l">>}

\* the cluster label of a parsed row: a string that trims to nothing or to
\* nan / none / null in any case becomes null
NormCluster(r) ==
    LET clusterRaw == Field(r, ClusterCols, Null)
    IN  IF clusterRaw.t = "string"
           /\ (Trim(clusterRaw.s) = <<>> \/ ToLowerCase(Trim(clusterRaw.s)) \in NanLike)
        THEN Null
        ELSE clusterRaw

\* { ...r, id, x_KPCA: x, y_KPCA: y, cluster: clusterRaw }
NormNode(r) ==
    LET id == Str(Trim(JsString(Field(r, IdCols, Str(<<>>)))))
        x  == ToNumber(Chain(r, XCols))
        y  == ToNumber(Chain(r, YCols))
        c  == NormCluster(r)
    IN  [col \in DOMAIN r \cup {"id", "x_KPCA", "y_KPCA", "cluster"} |->
            CASE col = "id" -> id
              [] col = "x_KPCA" -> x
              [] col = "y_KPCA" -> y
              [] col = "cluster" -> c
              [] OTHER -> r[col]]

NormNodes(nrows) == [i \in 1..Len(nrows) |-> NormNode(nrows[i])]

\* weight = Number(w ?? 1)
NormWeight(r) == ToNumber(Field(r, WeightCols, Num(1)))

NormEdge(r) ==
    [source_id |-> Trim(JsString(Coalesce(<<Chain(r, SourceCols), Str(<<>>)>>))),
     target_id |-> Trim(JsString(Coalesce(<<Chain(r, TargetCols), Str(<<>>)>>))),
     weight    |-> NormWeight(r)]

HasEnds(e) == e.source_id # <<>> /\ e.target_id # <<>>

\* erows.map(normalise).filter(e => e.source_id && e.target_id)
NormEdges(erows) == SelectSeq([i \in 1..Len(erows) |-> NormEdge(erows[i])], HasEnds)

(***************************************************************************)
(* Colormap: viridis and traitColor                                        *)
(***************************************************************************)
HexDigits == Digits \o <<"A", "B", "C", "D", "E", "F">>

\* parseInt(h.slice(i - 1, i + 1), 16) for a two-digit slice starting at the
\* 1-based position i
H2R(h, i) == 16 * (IndexIn(HexDigits, h[i]) - 1) + (IndexIn(HexDigits, h[i + 1]) - 1)

\* The stops of viridis: position in thousandths, colour as '#RRGGBB'.
ViridisStops ==
    << [pos |-> 0,    c |-> <<"#", "3", "1", "0", "8", "3", "E">>],
       [pos |-> 111,  c |-> <<"#", "3", "D", "0", "A", "8", "9">>],
       [pos |-> 222,  c |-> <<"#", "5", "3", "2", "4", "9", "6">>],
       [pos |-> 333,  c |-> <<"#", "6", "A", "3", "F", "A", "3">>],
       [pos |-> 444,  c |-> <<"#", "8", "1", "5", "A", "B", "0">>],
       [pos |-> 555,  c |-> <<"#", "9", "7", "7", "5", "B", "E">>],
       [pos |-> 666,  c |-> <<"#", "A", "D", "9", "0", "C", "B">>],
       [pos |-> 777,  c |-> <<"#", "C", "3", "A", "B", "D", "8">>],
       [pos |-> 888,  c |-> <<"#", "D", "8", "C", "5", "E", "4">>],
       [pos |-> 1000, c |-> <<"#", "E", "C", "E", "0", "F", "0">>] >>

Rgb(r, g, b) == [fmt |-> "rgb", r |-> r, g |-> g, b |-> b]
GrayFill == [fmt |-> "hex", s |-> "#bbbbbb"]

\* Math.round(c0 + (c1 - c0) * un / ud) for ud > 0: halves round up.
RoundMix(c0, c1, un, ud) == (2 * c0 * ud + 2 * (c1 - c0) * un + ud) \div (2 * ud)

\* viridis(t) for t = tn / td, td > 0
Viridis(tn, td) ==
    LET \* t = Math.min(1, Math.max(0, t)), as a fraction cn / td
        cn == IF tn < 0 THEN 0 ELSE IF tn > td THEN td ELSE tn
        \* while (i < stops.length - 1 && t > stops[i + 1][0]) i++   (1-based here)
        Skip[i \in 1..Len(ViridisStops)] ==
            IF i < Len(ViridisStops) /\ cn * 1000 > ViridisStops[i + 1].pos * td
            THEN Skip[i + 1] ELSE i
        i  == Skip[1]
        j  == IF i + 1 < Len(ViridisStops) THEN i + 1 ELSE Len(ViridisStops)
        s0 == ViridisStops[i]
        s1 == ViridisStops[j]
        \* u = (t - t0) / ((t1 - t0) || 1) = un / ud
        un == cn * 1000 - s0.pos * td
        ud == IF s1.pos - s0.pos # 0 THEN (s1.pos - s0.pos) * td ELSE 1000 * td
    IN  Rgb(RoundMix(H2R(s0.c, 2), H2R(s1.c, 2), un, ud),
            RoundMix(H2R(s0.c, 4), H2R(s1.c, 4), un, ud),
            RoundMix(H2R(s0.c, 6), H2R(s1.c, 6), un, ud))

VMin == 1
VMax == 9

\* traitColor(val): val == null || Number.isNaN(val) gives the gray sentinel
TraitColor(val) ==
    IF IsNullish(val) \/ val.t = "NaN" THEN GrayFill
    ELSE Viridis(val.n - VMin, VMax - VMin)

(***************************************************************************)
(* useMemo values                                                          *)
(***************************************************************************)
\* 0.08 = PadNum / PadDen.  The extent is kept in units of 1 / PadDen so that
\* the padding is exact.
PadNum == 2
PadDen == 25

\* v || 1
Or1(v) == IF Truthy(v) THEN v ELSE Num(1)

FiniteCoords(ns, col) == SelectSeq([i \in 1..Len(ns) |-> ToNumber(ns[i][col])], IsFinite)

\* one axis padded by (max - min) * 0.08, with no "|| 1"
PaddedAxisBySpan(vs) ==
    LET lo  == MathMin(vs)
        hi  == MathMax(vs)
        pad == XTimes(XSub(hi, lo), PadNum)
    IN  <<XSub(XTimes(lo, PadDen), pad), XAdd(XTimes(hi, PadDen), pad)>>

\* one axis of extent: <<min - pad, max + pad>> in units of 1 / PadDen
PaddedAxis(vs) ==
    LET lo  == MathMin(vs)
        hi  == MathMax(vs)
        pad == XTimes(Or1(XSub(hi, lo)), PadNum)
    IN  <<XSub(XTimes(lo, PadDen), pad), XAdd(XTimes(hi, PadDen), pad)>>

Extent(ns) ==
    IF Len(ns) = 0
    THEN [xmin |-> Num(-PadDen), xmax |-> Num(PadDen), ymin |-> Num(-PadDen), ymax |-> Num(PadDen)]
    ELSE LET ax == PaddedAxis(FiniteCoords(ns, "x_KPCA"))
             ay == PaddedAxis(FiniteCoords(ns, "y_KPCA"))
         IN  [xmin |-> ax[1], xmax |-> ax[2], ymin |-> ay[1], ymax |-> ay[2]]

\* String(n.cluster ?? "nan")
ClusterKey(n) == JsString(Coalesce(<<n["cluster"], Str(<<"n", "a", "n">>)>>))

HasCluster(n) == ClusterKey(n) # <<"n", "a", "n">>

HasFinitePos(n) == IsFinite(ToNumber(n["x_KPCA"])) /\ IsFinite(ToNumber(n["y_KPCA"]))

\* the keys of byCluster in the order they were created: a key is created
\* at the first node that carries it
CreatedKeys(ns) ==
    LET first == {i \in 1..Len(ns) :
                     /\ HasCluster(ns[i])
                     /\ \A j \in 1..(i - 1) : ClusterKey(ns[j]) # ClusterKey(ns[i])}
    IN  [k \in 1..Cardinality(first) |->
            ClusterKey(ns[CHOOSE i \in first : Cardinality({j \in first : j < i}) = k - 1])]

\* byCluster[c]: the finite positions of the nodes of cluster c, in node order
ClusterPoints(ns, c) ==
    LET InC(n) == HasCluster(n) /\ ClusterKey(n) = c /\ HasFinitePos(n)
        ms == SelectSeq(ns, InC)
    IN  [i \in 1..Len(ms) |-> [x |-> ToNumber(ms[i]["x_KPCA"]).n, y |-> ToNumber(ms[i]["y_KPCA"]).n]]

\* A key that is the canonical form of an array index.  (Keys of ten digits
\* and more are not modelled.)
IsArrayIndex(k) == IsDigits(k) /\ Len(k) <= 9 /\ (Len(k) = 1 \/ Head(k) # "0")

Range(seq) == {seq[i] : i \in 1..Len(seq)}

\* array-index keys in ascending numeric order
SortIndexKeys(S) ==
    [i \in 1..Cardinality(S) |->
        CHOOSE k \in S : Cardinality({k2 \in S : DigitsValue(k2) < DigitsValue(k)}) = i - 1]

\* Object.entries order: array-index keys ascending, then the other keys in
\* creation order
EntryOrder(keys) ==
    LET NotIndex(k) == ~IsArrayIndex(k)
    IN  SortIndexKeys({k \in Range(keys) : IsArrayIndex(k)}) \o SelectSeq(keys, NotIndex)

\* byCluster is a plain object: for these keys byCluster[c] is a property
\* inherited from Object.prototype, so !byCluster[c] is false and no array is
\* created.
ObjectPrototypeKeys ==
    { <<"c", "o", "n", "s", "t", "r", "u", "c", "t", "o", "r">>,
      <<"t", "o", "S", "t", "r", "i", "n", "g">>,
      <<"v", "a", "l", "u", "e", "O", "f">>,
      <<"_", "_", "p", "r", "o", "t", "o", "_", "_">> }

\* byCluster[c].push(...) on an inherited property throws a TypeError
EllipsesThrows(ns, show) ==
    /\ show
    /\ \E i \in 1..Len(ns) :
          HasCluster(ns[i]) /\ ClusterKey(ns[i]) \in ObjectPrototypeKeys /\ HasFinitePos(ns[i])

\* the ellipses memo when it does not throw; covEllipse(pts, 2.5) is a
\* function of pts alone and is carried as pts
Ellipses(ns, show) ==
    IF ~show THEN <<>>
    ELSE LET Own(k) == k \notin ObjectPrototypeKeys
             keys == EntryOrder(SelectSeq(CreatedKeys(ns), Own))
             Big(k) == Len(ClusterPoints(ns, k)) > 2
             kept == SelectSeq(keys, Big)
         IN  [i \in 1..Len(kept) |-> [cid |-> kept[i], pts |-> ClusterPoints(ns, kept[i])]]

CLUSTER_PASTELS ==
    <<"#FADA7A", "#FFC7A7", "#FFCFD2", "#F1C0E8", "#CFBAF0",
      "#90DBF4", "#A3C4F3", "#8EECF5", "#98F5E1", "#B9FBC0">>

\* the palette slot after the one that position i takes
PaletteSlotNext(i) == CLUSTER_PASTELS[(i % Len(CLUSTER_PASTELS)) + 1]

\* position of cid in ids.sort() (ids the distinct cids of the ellipses) to a palette slot
PaletteSlot(i) == CLUSTER_PASTELS[((i - 1) % Len(CLUSTER_PASTELS)) + 1]

\* ids.sort() for a set of distinct strings: ascending in code-unit order
SortStrings(S) ==
    [i \in 1..Cardinality(S) |->
        CHOOSE k \in S : Cardinality({k2 \in S : StrLess(k2, k)}) = i - 1]

\* the clusterColorById memo: a Map from cid to colour
ClusterColorById(ells) ==
    LET ids == SortStrings({ells[i].cid : i \in 1..Len(ells)})
    IN  [cid \in Range(ids) |-> PaletteSlot(IndexIn(ids, cid))]

\* a lookup that keeps the first node set for an id
NodeByIdFirst(ns, id) ==
    LET hits == {i \in 1..Len(ns) : JsString(ns[i]["id"]) = id}
    IN  IF hits = {} THEN 0 ELSE CHOOSE i \in hits : \A j \in hits : i <= j

\* nodeById.get(id): the index of the node the Map holds for id (the last one
\* set), 0 for none
NodeById(ns, id) ==
    LET hits == {i \in 1..Len(ns) : JsString(ns[i]["id"]) = id}
    IN  IF hits = {} THEN 0 ELSE CHOOSE i \in hits : \A j \in hits : j <= i

\* Number(e.weight) || 0
SegmentWeight(e) == IF Truthy(ToNumber(e.weight)) THEN ToNumber(e.weight) ELSE Num(0)

\* the segment of one edge, as a sequence of at most one element
Segment(ns, e) ==
    LET a == NodeById(ns, e.source_id)
        b == NodeById(ns, e.target_id)
    IN  IF a = 0 \/ b = 0 THEN <<>>
        ELSE IF HasFinitePos(ns[a]) /\ HasFinitePos(ns[b])
        THEN << [x1 |-> ToNumber(ns[a]["x_KPCA"]).n, y1 |-> ToNumber(ns[a]["y_KPCA"]).n,
                 x2 |-> ToNumber(ns[b]["x_KPCA"]).n, y2 |-> ToNumber(ns[b]["y_KPCA"]).n,
                 w  |-> SegmentWeight(e)] >>
        ELSE <<>>

\* lw = Math.max(0.6, s.w * edgeScale), in tenths, for edgeScale in tenths
LineWidth(seg, scale) == IF seg.w.n * scale > 6 THEN seg.w.n * scale ELSE 6

\* the edgeSegments memo
RECURSIVE EdgeSegments(_, _)
EdgeSegments(ns, es) ==
    IF es = <<>> THEN <<>> ELSE Segment(ns, Head(es)) \o EdgeSegments(ns, Tail(es))

(***************************************************************************)
(* Coordinate mapper (sx, sy) and the nearest-point loop                   *)
(***************************************************************************)
XMulInt(a, k) ==
    IF a.t = "number" THEN Num(a.n * k)
    ELSE IF a.t = "NaN" \/ k = 0 THEN NaN
    ELSE IF k > 0 THEN a ELSE XNeg(a)

\* a / b when a or b is not finite, or b is 0
XDivSpecial(a, b) ==
    IF a.t = "NaN" \/ b.t = "NaN" THEN NaN
    ELSE IF a.t = "number" /\ b.t = "number"
    THEN (IF a.n = 0 THEN NaN ELSE IF a.n > 0 THEN PosInf ELSE NegInf)
    ELSE IF a.t = "number" THEN Num(0)
    ELSE IF b.t # "number" THEN NaN
    ELSE IF b.n >= 0 THEN a ELSE XNeg(a)

\* (a / b) * k.  For finite a and b # 0 the quotient a * k / b is exact for
\* the canvas sizes and coordinates of the model (see PixelsExact).
MulDiv(a, b, k) ==
    IF a.t = "number" /\ b.t = "number" /\ b.n # 0
    THEN Num((a.n * k) \div b.n)
    ELSE XMulInt(XDivSpecial(a, b), k)

\* extent.max - extent.min || 1, in units of 1 / PadDen
SpanOr1(lo, hi) == IF Truthy(XSub(hi, lo)) THEN XSub(hi, lo) ELSE Num(PadDen)

\* sx(x) = (x - xmin) / (xmax - xmin || 1) * (W - 20) + 10
ScreenX(x, ext, W) ==
    XAdd(MulDiv(XSub(XTimes(x, PadDen), ext.xmin), SpanOr1(ext.xmin, ext.xmax), W - 20), Num(10))

\* sy(y) = (1 - (y - ymin) / (ymax - ymin || 1)) * (H - 20) + 10
ScreenY(y, ext, H) ==
    XAdd(XSub(Num(H - 20),
              MulDiv(XSub(XTimes(y, PadDen), ext.ymin), SpanOr1(ext.ymin, ext.ymax), H - 20)),
         Num(10))

XSquare(a) == IF a.t = "number" THEN Num(a.n * a.n) ELSE IF a.t = "NaN" THEN NaN ELSE PosInf

\* dx * dx + dy * dy for node n and the click point (cx, cy)
Dist2(n, ext, W, H, cx, cy) ==
    XAdd(XSquare(XSub(ScreenX(ToNumber(n["x_KPCA"]), ext, W), Num(cx))),
         XSquare(XSub(ScreenY(ToNumber(n["y_KPCA"]), ext, H), Num(cy))))

\* the loop of handleCanvasClick: bestId after all nodes
NearestId(ns, ext, W, H, cx, cy) ==
    LET Best[i \in 0..Len(ns)] ==
            IF i = 0 THEN [bestId |-> <<>>, bestD |-> PosInf]
            ELSE LET prev == Best[i - 1]
                     d2   == Dist2(ns[i], ext, W, H, cx, cy)
                 IN  IF HasFinitePos(ns[i]) /\ XLess(d2, prev.bestD)
                     THEN [bestId |-> JsString(ns[i]["id"]), bestD |-> d2]
                     ELSE prev
    IN  Best[Len(ns)].bestId

(***************************************************************************)
(* selectedNode and the radarData memo                                     *)
(***************************************************************************)
TRAITS ==
    <<"Hyperrealism", "Sensory Sensitivity", "Cognitive Empathy", "Systemizing",
      "Attention", "Flexibility", "Motivation", "Visual vs Verbal Thinking">>

\* TRAIT_LABELS[t] || t
TraitLabel(t) ==
    CASE t = "Cognitive Empathy" -> "Empathy"
      [] t = "Visual vs Verbal Thinking" -> "Visual Thinking"
      [] OTHER -> t

\* selectedId ? nodeById.get(String(selectedId)) : null, as an index into ns, 0 for none
SelectedNode(ns, sel) == IF sel = <<>> THEN 0 ELSE NodeById(ns, sel)

\* a radar value that is Number(selectedNode[t]) as it is
RadarValueRaw(n, t) == ToNumber(Get(n, t))

\* Number(selectedNode[t]) || 0
RadarValue(n, t) == IF Truthy(ToNumber(Get(n, t))) THEN ToNumber(Get(n, t)) ELSE Num(0)

\* the radarData memo
RadarData(ns, sel) ==
    LET k == SelectedNode(ns, sel)
    IN  [i \in 1..Len(TRAITS) |->
            [trait |-> TraitLabel(TRAITS[i]),
             value |-> IF k = 0 THEN Num(0) ELSE RadarValue(ns[k], TRAITS[i])]]

(***************************************************************************)
(* The component                                                           *)
(***************************************************************************)
DefaultW == 900
DefaultH == 650

VARIABLES
    pc,           \* loadDirect: "awaitFetch", "awaitParse" or "done"
    respN, respE, \* the two fetchText promises: pending, failed, or ok with the table
    cancelled,    \* the effect's flag, set by its cleanup at teardown
    failure,      \* what went wrong in the load, "none" if nothing
    nodes, edges, \* useState
    trait, showEdges, edgeScale, pointSize, showEllipses, selectedId,
    client,       \* <<canvas.clientWidth, canvas.clientHeight>>
    drawn,        \* what the last run of the render effect drew with
    hit           \* the last canvas click: its point, the node list, W, H and extent
                  \* it hit-tested with, the drawing then on the canvas, and
                  \* the bestId it found; <<>> before any click

vars == <<pc, respN, respE, cancelled, failure, nodes, edges, trait, showEdges,
          edgeScale, pointSize, showEllipses, selectedId, client, drawn, hit>>

loadVars == <<pc, respN, respE, cancelled, failure>>
dataVars == <<nodes, edges>>
viewVars == <<trait, showEdges, edgeScale, pointSize, showEllipses>>

Pending == [st |-> "pending"]
Failed  == [st |-> "failed"]
Ok(rows) == [st |-> "ok", rows |-> rows]

\* canvas.clientWidth || 900, canvas.clientHeight || 650
CanvasW(cl) == IF cl[1] # 0 THEN cl[1] ELSE DefaultW
CanvasH(cl) == IF cl[2] # 0 THEN cl[2] ELSE DefaultH

\* The render effect: W, H and the extent its sx and sy are built from, and
\* the fill of every node it draws.
NodeFill(n, tr) == TraitColor(ToNumber(Get(n, tr)))

Fills(ns, tr) ==
    LET vis == SelectSeq(ns, HasFinitePos)
    IN  [i \in 1..Len(vis) |-> NodeFill(vis[i], tr)]

RenderEffect(ns, cl) == [W |-> CanvasW(cl), H |-> CanvasH(cl), extent |-> Extent(ns)]

\* The component is mounted: not torn down, and no render has thrown (an
\* exception in a render unmounts the component).
Mounted == ~cancelled /\ ~EllipsesThrows(nodes, showEllipses)

\* A state change re-renders and re-runs the effect; setting a cell to the
\* value it holds does not, and a render that throws draws nothing.
Rerender(changed) ==
    drawn' = IF changed /\ ~EllipsesThrows(nodes', showEllipses')
             THEN RenderEffect(nodes', client') ELSE drawn

\* Client sizes of the canvas; <<0, 0>> is a canvas that has no layout yet.
CanvasSizes == {<<600, 310>>, <<310, 600>>, <<0, 0>>}

Init ==
    /\ pc = "awaitFetch"
    /\ respN = Pending
    /\ respE = Pending
    /\ cancelled = FALSE
    /\ failure = "none"
    /\ nodes = <<>>
    /\ edges = <<>>
    /\ trait = TRAITS[1]
    /\ showEdges = TRUE
    /\ edgeScale = 10
    /\ pointSize = 5
    /\ showEllipses = TRUE
    /\ selectedId = <<>>
    /\ client \in CanvasSizes
    /\ drawn = RenderEffect(<<>>, client)
    /\ hit = <<>>

(***************************************************************************)
(* loadDirect                                                              *)
(***************************************************************************)
\* fetchText of the node table returns its text
FetchNodesOk(tables) ==
    /\ respN = Pending
    /\ \E rows \in tables : respN' = Ok(rows)
    /\ UNCHANGED <<pc, respE, cancelled, failure, dataVars, viewVars, selectedId, client, drawn, hit>>

\* fetchText of the node table throws: network error, or !res.ok
FetchNodesFail ==
    /\ respN = Pending
    /\ respN' = Failed
    /\ UNCHANGED <<pc, respE, cancelled, failure, dataVars, viewVars, selectedId, client, drawn, hit>>

FetchEdgesOk(tables) ==
    /\ respE = Pending
    /\ \E rows \in tables : respE' = Ok(rows)
    /\ UNCHANGED <<pc, respN, cancelled, failure, dataVars, viewVars, selectedId, client, drawn, hit>>

FetchEdgesFail ==
    /\ respE = Pending
    /\ respE' = Failed
    /\ UNCHANGED <<pc, respN, cancelled, failure, dataVars, viewVars, selectedId, client, drawn, hit>>

\* Promise.all of the fetches rejects: the catch block runs, which does nothing
FetchRejected ==
    /\ pc = "awaitFetch"
    /\ respN = Failed \/ respE = Failed
    /\ pc' = "done"
    /\ failure' = "fetch"
    /\ UNCHANGED <<respN, respE, cancelled, dataVars, viewVars, selectedId, client, drawn, hit>>

\* Promise.all of the fetches resolves: if (cancelled) return; otherwise both
\* parseCsv promises are created and awaited
FetchResolved ==
    /\ pc = "awaitFetch"
    /\ respN.st = "ok" /\ respE.st = "ok"
    /\ pc' = IF cancelled THEN "done" ELSE "awaitParse"
    /\ UNCHANGED <<respN, respE, cancelled, failure, dataVars, viewVars, selectedId, client, drawn, hit>>

\* Both parseCsv promises resolve with res.data; res.errors (errors: Papa
\* reported parse errors) is not looked at.  The rows are normalised and
\* setNodes and setEdges are called.
ParseResolved ==
    /\ pc = "awaitParse"
    /\ \E errors \in BOOLEAN : failure' = IF errors THEN "parseErrors" ELSE failure
    /\ nodes' = NormNodes(respN.rows)
    /\ edges' = NormEdges(respE.rows)
    /\ pc' = "done"
    /\ UNCHANGED <<respN, respE, cancelled, viewVars, selectedId, client, hit>>
    /\ Rerender(~cancelled)

\* An exception inside a parseCsv executor rejects its promise: the catch block runs
ParseThrew ==
    /\ pc = "awaitParse"
    /\ pc' = "done"
    /\ failure' = "parseThrow"
    /\ UNCHANGED <<respN, respE, cancelled, dataVars, viewVars, selectedId, client, drawn, hit>>

\* The effect's cleanup at component teardown
Teardown ==
    /\ ~cancelled
    /\ cancelled' = TRUE
    /\ UNCHANGED <<pc, respN, respE, failure, dataVars, viewVars, selectedId, client, drawn, hit>>

(***************************************************************************)
(* Events of the mounted component                                         *)
(***************************************************************************)
SetTrait(v) ==
    /\ Mounted
    /\ trait' = v
    /\ UNCHANGED <<loadVars, dataVars, showEdges, edgeScale, pointSize, showEllipses,
                   selectedId, client, hit>>
    /\ Rerender(v # trait)

SetShowEdges(v) ==
    /\ Mounted
    /\ showEdges' = v
    /\ UNCHANGED <<loadVars, dataVars, trait, edgeScale, pointSize, showEllipses,
                   selectedId, client, hit>>
    /\ Rerender(v # showEdges)

\* the edge thickness slider, in tenths
SetEdgeScale(v) ==
    /\ Mounted
    /\ edgeScale' = v
    /\ UNCHANGED <<loadVars, dataVars, trait, showEdges, pointSize, showEllipses,
                   selectedId, client, hit>>
    /\ Rerender(v # edgeScale)

SetPointSize(v) ==
    /\ Mounted
    /\ pointSize' = v
    /\ UNCHANGED <<loadVars, dataVars, trait, showEdges, edgeScale, showEllipses,
                   selectedId, client, hit>>
    /\ Rerender(v # pointSize)

SetShowEllipses(v) ==
    /\ Mounted
    /\ showEllipses' = v
    /\ UNCHANGED <<loadVars, dataVars, trait, showEdges, edgeScale, pointSize,
                   selectedId, client, hit>>
    /\ Rerender(v # showEllipses)

\* the ids offered by the "Select user" control
UserOptionIds(ns) == {JsString(ns[i]["id"]) : i \in 1..Len(ns)}

NoneOption == <<"_", "_", "n", "o", "n", "e", "_", "_">>

\* onValueChange of the "Select user" control
SelectUser(v) ==
    /\ Mounted
    /\ selectedId' = IF v = NoneOption THEN <<>> ELSE v
    /\ UNCHANGED <<loadVars, dataVars, viewVars, client, hit>>
    /\ Rerender(selectedId' # selectedId)

\* the "Focus your profile" button
FocusProfile ==
    /\ Mounted
    /\ selectedId' = <<"U", "s", "e", "r", " ", "1">>
    /\ UNCHANGED <<loadVars, dataVars, viewVars, client, hit>>
    /\ Rerender(selectedId' # selectedId)

\* The viewport is resized: the canvas gets a new client size.  No state cell
\* changes and nothing listens, so the effect does not run.
Resize(sz) ==
    /\ Mounted
    /\ sz # client
    /\ client' = sz
    /\ UNCHANGED <<loadVars, dataVars, viewVars, selectedId, drawn, hit>>

\* a click handler that sets the selection to whatever the loop found
HandleCanvasClickAlways(cx, cy) ==
    LET W == CanvasW(client)
        H == CanvasH(client)
        bestId == NearestId(nodes, Extent(nodes), W, H, cx, cy)
    IN  /\ Mounted
        /\ client[1] > 0 /\ client[2] > 0
        /\ selectedId' = bestId
        /\ hit' = << [cx |-> cx, cy |-> cy, W |-> W, H |-> H, extent |-> Extent(nodes),
                      nodes |-> nodes, drawn |-> drawn, bestId |-> bestId] >>
        /\ UNCHANGED <<loadVars, dataVars, viewVars, client>>
        /\ Rerender(selectedId' # selectedId)

\* handleCanvasClick for a click at (cx, cy) relative to the canvas
HandleCanvasClick(cx, cy) ==
    LET W == CanvasW(client)
        H == CanvasH(client)
        bestId == NearestId(nodes, Extent(nodes), W, H, cx, cy)
    IN  /\ Mounted
        /\ client[1] > 0 /\ client[2] > 0
        /\ selectedId' = IF bestId # <<>> THEN bestId ELSE selectedId
        /\ hit' = << [cx |-> cx, cy |-> cy, W |-> W, H |-> H, extent |-> Extent(nodes),
                      nodes |-> nodes, drawn |-> drawn, bestId |-> bestId] >>
        /\ UNCHANGED <<loadVars, dataVars, viewVars, client>>
        /\ Rerender(selectedId' # selectedId)

(***************************************************************************)
(* The tables the server may return (as parsed with header and             *)
(* dynamicTyping) and the events a user may cause                          *)
(***************************************************************************)
MaxNodes  == 3
MaxEdges  == 2
MaxGroups == 2

SeqsUpTo(S, n) == UNION {[1..k -> S] : k \in 0..n}

Scores(v) == [tr \in Range(TRAITS) |-> v]

\* a node row with the columns id, x_KPCA, y_KPCA, cluster and the trait columns sc
NodeRow(id, x, y, c, sc) ==
    [col \in {"id", "x_KPCA", "y_KPCA", "cluster"} \cup DOMAIN sc |->
        CASE col = "id" -> id
          [] col = "x_KPCA" -> x
          [] col = "y_KPCA" -> y
          [] col = "cluster" -> c
          [] OTHER -> sc[col]]

EdgeRow(s, t, w) == [source_id |-> s, target_id |-> t, weight |-> w]

\* Rows that differ in id and position: a numeric id, an empty id cell, a
\* position cell that is text, an empty position cell.
GeomRows ==
    { NodeRow(Str(<<"A">>), Num(0), Num(0), Null, Scores(Num(5))),
      NodeRow(Str(<<"B">>), Num(2), Num(2), Null, Scores(Num(5))),
      NodeRow(Num(7),       Num(2), Num(0), Null, Scores(Num(5))),
      NodeRow(Null,         Num(1), Num(1), Null, Scores(Num(5))),
      NodeRow(Str(<<"G">>), Str(<<"n", "a">>), Num(1), Null, Scores(Num(5))),
      NodeRow(Str(<<"H">>), Num(2), Null, Null, Scores(Num(5))) }

GeomTables == SeqsUpTo(GeomRows, MaxNodes)

\* the picker example of the specification: nodes at (0,0), (10,10), (100,100)
PickExample ==
    << NodeRow(Str(<<"P">>), Num(0), Num(0), Null, Scores(Num(5))),
       NodeRow(Str(<<"Q">>), Num(10), Num(10), Null, Scores(Num(5))),
       NodeRow(Str(<<"R">>), Num(100), Num(100), Null, Scores(Num(5))) >>

\* the end-to-end example: A(0,0) and B(10,10) of cluster "1", one edge A -> B of weight 2
ExampleAB ==
    << NodeRow(Str(<<"A">>), Num(0), Num(0), Num(1), Scores(Num(5))),
       NodeRow(Str(<<"B">>), Num(10), Num(10), Num(1), Scores(Num(5))) >>

ExampleEdge == << EdgeRow(Str(<<"A">>), Str(<<"B">>), Num(2)) >>

\* a table with a node that has no finite position, a repeated id and the
\* user "User 1"
MixedNodes ==
    << NodeRow(Str(<<"A">>), Num(0), Num(0), Num(1), Scores(Num(5))),
       NodeRow(Str(<<"B">>), Str(<<"n", "a">>), Num(1), Num(1), Scores(Num(5))),
       NodeRow(Str(<<"C">>), Num(1), Num(1), Null, Scores(Num(5))),
       NodeRow(Str(<<"U", "s", "e", "r", " ", "1">>), Num(2), Num(2), Null, Scores(Num(5))),
       NodeRow(Str(<<"C">>), Num(2), Num(0), Null, Scores(Num(5))) >>

\* Edge rows: weight 2, an empty weight cell, no weight column, a weight that
\* is text, weight 0, an unknown target, an endpoint without finite position,
\* an empty source cell, other column names.
EdgeRows ==
    { EdgeRow(Str(<<"A">>), Str(<<"B">>), Num(2)),
      EdgeRow(Str(<<"A">>), Str(<<"C">>), Null),
      [source_id |-> Str(<<"C">>), target_id |-> Str(<<"A">>)],
      EdgeRow(Str(<<"A">>), Str(<<"C">>), Str(<<"h", "i", "g", "h">>)),
      EdgeRow(Str(<<"C">>), Str(<<"C">>), Num(0)),
      EdgeRow(Str(<<"A">>), Str(<<"Z">>), Num(3)),
      EdgeRow(Null, Str(<<"A">>), Num(3)),
      [from |-> Str(<<" ", "A">>), to |-> Str(<<"C", " ">>), w |-> Num(4)] }

EdgeTables == SeqsUpTo(EdgeRows, MaxEdges)

\* Rows that differ in the cluster cell.
ClusterRows ==
    { NodeRow(Str(<<"A">>), Num(0), Num(0), Num(1), Scores(Num(5))),
      NodeRow(Str(<<"B">>), Num(1), Num(2), Num(1), Scores(Num(5))),
      NodeRow(Str(<<"C">>), Str(<<"n", "a">>), Num(1), Num(1), Scores(Num(5))),
      NodeRow(Str(<<"D">>), Num(2), Num(1), Str(<<"a">>), Scores(Num(5))),
      NodeRow(Str(<<"E">>), Num(1), Num(1), Str(<<"N", "a", "N">>), Scores(Num(5))),
      NodeRow(Str(<<"F">>), Num(1), Num(0), Str(<<" ", "N", "o", "n", "e", " ">>), Scores(Num(5))),
      NodeRow(Str(<<"G">>), Num(2), Num(2), Str(<<"n", "u", "l", "l">>), Scores(Num(5))),
      NodeRow(Str(<<"H">>), Num(0), Num(1), Null, Scores(Num(5))),
      NodeRow(Str(<<"K">>), Num(2), Num(0),
              Str(<<"c", "o", "n", "s", "t", "r", "u", "c", "t", "o", "r">>), Scores(Num(5))) }

\* k rows of cluster c, at different positions
Group(c, k) == [i \in 1..k |-> NodeRow(Str(<<"N">>), Num(i % 3), Num(i \div 3), c, Scores(Num(5)))]

RECURSIVE Flatten(_)
Flatten(ss) == IF ss = <<>> THEN <<>> ELSE Head(ss) \o Flatten(Tail(ss))

GroupKinds == {Group(c, k) : c \in {Num(1), Num(2), Num(10), Str(<<"a">>)}, k \in {2, 3}}

\* clusters 1..n of three nodes each
WideTable(n) == [i \in 1..(3 * n) |-> Group(Num(((i - 1) \div 3) + 1), 3)[((i - 1) % 3) + 1]]

ClusterTables ==
    SeqsUpTo(ClusterRows, MaxNodes)
    \cup {Flatten(gs) : gs \in SeqsUpTo(GroupKinds, MaxGroups)}
    \cup {WideTable(Len(CLUSTER_PASTELS) + 1), WideTable(Len(CLUSTER_PASTELS) + 2)}

\* Cells of a trait column: scores inside and outside 1..9, an empty cell, text.
ScoreCells == <<Num(1), Num(5), Num(9), Num(12), Num(0), Null, Str(<<"h", "i", "g", "h">>), Num(4)>>

\* row k holds, for the i-th trait, the cell (k + i) of ScoreCells (cyclically);
\* row 0 has no trait column at all
TraitRow(k) ==
    IF k = 0
    THEN [id |-> Str(<<"Z">>), x_KPCA |-> Num(0), y_KPCA |-> Num(0), cluster |-> Null]
    ELSE NodeRow(Str(<<Upper[k]>>), Num(k % 3), Num(k \div 3), Null,
                 [tr \in Range(TRAITS) |->
                     ScoreCells[((k + IndexIn(TRAITS, tr)) % Len(ScoreCells)) + 1]])

TraitTables == SeqsUpTo({TraitRow(k) : k \in 0..Len(ScoreCells)}, MaxNodes - 1)

\* A click position along one side of the canvas of length L, as a fraction
\* of the drawing area: 2/29, 9/58, 1/2, 49/58 or 27/29.
ClickPx(f, L) ==
    CASE f = "lo"   -> 10 + ((L - 20) * 2) \div 29
      [] f = "near" -> 10 + ((L - 20) * 9) \div 58
      [] f = "mid"  -> 10 + (L - 20) \div 2
      [] f = "far"  -> 10 + ((L - 20) * 49) \div 58
      [] f = "hi"   -> 10 + ((L - 20) * 27) \div 29

Load(nodeTables, edgeTables) ==
    \/ FetchNodesOk(nodeTables)
    \/ FetchNodesFail
    \/ FetchEdgesOk(edgeTables)
    \/ FetchEdgesFail
    \/ FetchRejected
    \/ FetchResolved
    \/ ParseResolved
    \/ ParseThrew

Click(points) ==
    \E p \in points :
        HandleCanvasClick(ClickPx(p[1], CanvasW(client)), ClickPx(p[2], CanvasH(client)))

(***************************************************************************)
(* Specifications                                                          *)
(***************************************************************************)
\* The load and the teardown, with a user who clicks and focuses.
Next ==
    \/ Load({<<>>, ExampleAB, MixedNodes}, {<<>>, ExampleEdge})
    \/ Teardown
    \/ Click({<<"lo", "hi">>, <<"mid", "mid">>})
    \/ FocusProfile

Spec == Init /\ [][Next]_vars

\* The mounted component with its controls and a viewport that is resized.
NextView ==
    \/ Load({ExampleAB, MixedNodes}, {ExampleEdge})
    \/ \E sz \in CanvasSizes : Resize(sz)
    \/ Click({<<"lo", "hi">>, <<"mid", "mid">>})
    \/ \E v \in {TRAITS[1], TRAITS[2]} : SetTrait(v)

SpecView == Init /\ [][NextView]_vars

\* Any small node table, hit-tested.
NextPick ==
    \/ Load(GeomTables \cup {PickExample}, {<<>>})
    \/ Click({<<"lo", "hi">>, <<"lo", "mid">>, <<"mid", "mid">>, <<"mid", "hi">>, <<"near", "far">>})

\* the canvas of the picker runs is laid out at 600 x 310
InitPick == Init /\ client = <<600, 310>>

SpecPick == InitPick /\ [][NextPick]_vars

\* Any small edge table over two node tables.
NextEdges ==
    \/ Load({ExampleAB, MixedNodes}, EdgeTables)
    \/ \E v \in BOOLEAN : SetShowEdges(v)
    \/ \E v \in {2, 10, 80} : SetEdgeScale(v)

SpecEdges == Init /\ [][NextEdges]_vars

\* Node tables that differ in their cluster cells.
NextClusters ==
    \/ Load(ClusterTables, {<<>>})
    \/ \E v \in BOOLEAN : SetShowEllipses(v)

SpecClusters == Init /\ [][NextClusters]_vars

\* Node tables that differ in their trait cells.
NextTraits ==
    \/ Load(TraitTables, {<<>>})
    \/ \E v \in Range(TRAITS) : SetTrait(v)

SpecTraits == Init /\ [][NextTraits]_vars

\* two rows that carry one id and differ in their scores
TwinRows == << TraitRow(1), [TraitRow(2) EXCEPT !["id"] = Str(<<"A">>)] >>

\* Node tables that differ in their trait cells, with a user who selects.
NextRadar ==
    \/ Load(TraitTables \cup {TwinRows}, {<<>>})
    \/ \E v \in UserOptionIds(nodes) \cup {NoneOption} : SelectUser(v)
    \/ FocusProfile
    \/ Click({<<"mid", "mid">>})

SpecRadar == Init /\ [][NextRadar]_vars

\* a table whose only row has an empty id cell
NoIdNodes == << NodeRow(Null, Num(1), Num(1), Null, Scores(Num(5))) >>

\* Every control of the page, the load and the clicks.
NextControls ==
    \/ Load({ExampleAB, MixedNodes, NoIdNodes}, {ExampleEdge})
    \/ \E v \in {TRAITS[1], TRAITS[2]} : SetTrait(v)
    \/ \E v \in BOOLEAN : SetShowEdges(v)
    \/ \E v \in {10, 20} : SetEdgeScale(v)
    \/ \E v \in {5, 6} : SetPointSize(v)
    \/ \E v \in BOOLEAN : SetShowEllipses(v)
    \/ \E v \in UserOptionIds(nodes) \cup {NoneOption} : SelectUser(v)
    \/ FocusProfile
    \/ Click({<<"lo", "hi">>, <<"mid", "mid">>})

SpecControls == InitPick /\ [][NextControls]_vars

(***************************************************************************)
(* Properties                                                              *)
(***************************************************************************)
\* Every pixel coordinate a click computed is an integer: the quotient in
\* MulDiv is exact for the canvas sizes and tables of the specifications.
PixelsExact ==
    hit # <<>> =>
        LET h == hit[1]
        IN  \A i \in 1..Len(h.nodes) :
                HasFinitePos(h.nodes[i]) =>
                    LET ax == XSub(XTimes(ToNumber(h.nodes[i]["x_KPCA"]), PadDen), h.extent.xmin)
                        ay == XSub(XTimes(ToNumber(h.nodes[i]["y_KPCA"]), PadDen), h.extent.ymin)
                    IN  /\ (ax.n * (h.W - 20)) % SpanOr1(h.extent.xmin, h.extent.xmax).n = 0
                        /\ (ay.n * (h.H - 20)) % SpanOr1(h.extent.ymin, h.extent.ymax).n = 0

\* C1: once the component is torn down, no step writes the node list or the
\* edge list again, wherever in the load the teardown falls.
C1_NoWriteAfterTeardown == [][cancelled => (nodes' = nodes /\ edges' = edges)]_vars

\* C2: after a failed fetch or a failed parse both lists are empty, and the
\* lists hold data only when both tables were fetched and parsed without
\* failure, in which case both hold the parsed tables.
C2_FailureLeavesDataEmpty ==
    /\ failure # "none" => (nodes = <<>> /\ edges = <<>>)
    /\ (nodes # <<>> \/ edges # <<>>) =>
          /\ respN.st = "ok" /\ respE.st = "ok" /\ failure = "none"
          /\ nodes = NormNodes(respN.rows)
          /\ edges = NormEdges(respE.rows)

\* C3: every canvas click hit-tests with the canvas size and the extent that
\* the most recent run of the render effect drew with.
C3_HitTestUsesDrawnMapper ==
    hit # <<>> =>
        /\ hit[1].W = hit[1].drawn.W
        /\ hit[1].H = hit[1].drawn.H
        /\ hit[1].extent = hit[1].drawn.extent

\* C4: a click selects the id of the first node, in list order, among the
\* nodes with finite coordinates at minimum squared pixel distance from the
\* click, and it selects nothing only when no node has finite coordinates.
C4_PicksNearestNode ==
    hit # <<>> =>
        LET h == hit[1]
            F == {i \in 1..Len(h.nodes) : HasFinitePos(h.nodes[i])}
            D(i) == Dist2(h.nodes[i], h.extent, h.W, h.H, h.cx, h.cy)
        IN  IF F = {} THEN h.bestId = <<>>
            ELSE \E i \in F :
                    /\ \A j \in F : ~XLess(D(j), D(i))
                    /\ \A j \in F : j < i => XLess(D(i), D(j))
                    /\ h.bestId # <<>>
                    /\ h.bestId = JsString(h.nodes[i]["id"])
                    /\ selectedId = h.bestId

\* C5: the segment of an edge row whose weight cell is absent or is no
\* number carries weight 1, and its line is drawn with width
\* max(0.6, 1 * edgeScale).
C5_DefaultWeightIsOne ==
    (pc = "done" /\ nodes # <<>>) =>
        \A k \in 1..Len(respE.rows) :
            LET cell == Chain(respE.rows[k], WeightCols)
                e    == NormEdge(respE.rows[k])
                segs == IF HasEnds(e) THEN Segment(nodes, e) ELSE <<>>
            IN  ((IsNullish(cell) \/ ToNumber(cell).t = "NaN") /\ segs # <<>>) =>
                    /\ segs[1].w = Num(1)
                    /\ LineWidth(segs[1], edgeScale) = (IF edgeScale > 6 THEN edgeScale ELSE 6)

\* C6: the segment list is the edge list, in order, restricted to the edges
\* whose source id and target id both resolve (an id resolves to the last
\* node of the list that carries it) to nodes with finite coordinates; each
\* segment joins the positions of the two nodes; every other edge is
\* dropped.  Nodes A(0,0) and B(10,10) of cluster 1 with the edge A -> B of
\* weight 2 give one segment and no ellipse.
C6_SegmentsAreResolvedEdges ==
    LET segs     == EdgeSegments(nodes, edges)
        Ids(id)  == {i \in 1..Len(nodes) : JsString(nodes[i]["id"]) = id}
        Res(id)  == CHOOSE i \in Ids(id) : \A j \in Ids(id) : j <= i
        Kept(k)  == /\ Ids(edges[k].source_id) # {}
                    /\ Ids(edges[k].target_id) # {}
                    /\ HasFinitePos(nodes[Res(edges[k].source_id)])
                    /\ HasFinitePos(nodes[Res(edges[k].target_id)])
        K        == {k \in 1..Len(edges) : Kept(k)}
        Pos(k)   == Cardinality({j \in K : j <= k})
        X(i)     == ToNumber(nodes[i]["x_KPCA"]).n
        Y(i)     == ToNumber(nodes[i]["y_KPCA"]).n
    IN  /\ Len(segs) = Cardinality(K)
        /\ \A k \in K :
              LET sg == segs[Pos(k)]
                  a  == Res(edges[k].source_id)
                  b  == Res(edges[k].target_id)
              IN  sg.x1 = X(a) /\ sg.y1 = Y(a) /\ sg.x2 = X(b) /\ sg.y2 = Y(b)
        /\ (nodes = NormNodes(ExampleAB) /\ edges = NormEdges(ExampleEdge)) =>
              /\ segs = << [x1 |-> 0, y1 |-> 0, x2 |-> 10, y2 |-> 10, w |-> Num(2)] >>
              /\ Ellipses(nodes, TRUE) = <<>>

\* C6 happens: two edges were loaded, one of them ends at the id that two
\* nodes carry and is kept, the other is dropped.
C6_KeptAndDropped ==
    /\ Len(edges) = 2
    /\ Len(EdgeSegments(nodes, edges)) = 1
    /\ \E k \in 1..2 :
          /\ Segment(nodes, edges[k]) # <<>>
          /\ Cardinality({i \in 1..Len(nodes) : JsString(nodes[i]["id"]) = edges[k].target_id}) = 2

\* C7: with the ellipses shown the ellipse list has exactly one ellipse for
\* each cluster label with more than 2 nodes of finite position and none for
\* any other label, nodes without a label contributing to none; with the
\* ellipses hidden the list is empty.
C7_OneEllipsePerCluster ==
    (pc = "done" /\ respN.st = "ok" /\ nodes = NormNodes(respN.rows)) =>
        /\ ~EllipsesThrows(nodes, showEllipses)
        /\ LET ells == Ellipses(nodes, showEllipses)
               rows == respN.rows
               \* the label of a row: none for an empty cell and for text that
               \* is empty or nan, none or null in any case
               LabelOf(r) ==
                   LET cell == Chain(r, ClusterCols)
                       low  == IF cell.t = "string" THEN ToLowerCase(Trim(cell.s)) ELSE <<>>
                   IN  IF IsNullish(cell) THEN <<>>
                       ELSE IF cell.t = "string" /\ low \in {<<>>} \cup NanLike THEN <<>>
                       ELSE <<JsString(cell)>>
               Members(c) == {i \in 1..Len(rows) : LabelOf(rows[i]) = <<c>> /\ HasFinitePos(nodes[i])}
               Labels == {LabelOf(rows[i])[1] : i \in {j \in 1..Len(rows) : LabelOf(rows[j]) # <<>>}}
           IN  IF ~showEllipses THEN ells = <<>>
               ELSE /\ {ells[i].cid : i \in 1..Len(ells)} = {c \in Labels : Cardinality(Members(c)) > 2}
                    /\ \A i, j \in 1..Len(ells) : ells[i].cid = ells[j].cid => i = j
                    /\ \A i \in 1..Len(ells) : Len(ells[i].pts) = Cardinality(Members(ells[i].cid))

\* C8: the extent is [-1,1] x [-1,1] for the empty node list; otherwise it is
\* the bounding box of the nodes with finite position, enlarged on each side
\* of each axis by 8% of the span of that axis.  The canvas is drawn with the
\* extent of the current node list.
C8_ExtentPadsBySpan ==
    LET ext == Extent(nodes)
        F   == {i \in 1..Len(nodes) : HasFinitePos(nodes[i])}
        V(col) == {ToNumber(nodes[i][col]).n : i \in F}
        Lo(S) == CHOOSE v \in S : \A u \in S : v <= u
        Hi(S) == CHOOSE v \in S : \A u \in S : u <= v
        Padded(S, lo, hi) ==
            /\ lo = Num(Lo(S) * PadDen - (Hi(S) - Lo(S)) * PadNum)
            /\ hi = Num(Hi(S) * PadDen + (Hi(S) - Lo(S)) * PadNum)
    IN  /\ drawn.extent = ext
        /\ nodes = <<>> =>
              ext = [xmin |-> Num(-PadDen), xmax |-> Num(PadDen),
                     ymin |-> Num(-PadDen), ymax |-> Num(PadDen)]
        /\ F # {} =>
              /\ Padded(V("x_KPCA"), ext.xmin, ext.xmax)
              /\ Padded(V("y_KPCA"), ext.ymin, ext.ymax)

\* C8 as the code has it: the extent is [-1,1] x [-1,1] for the empty node
\* list; otherwise each axis is taken over the finite values of that
\* coordinate among all nodes and runs from min - pad to max + pad, where
\* pad is 8% of max - min, or 0.08 when max = min; an axis on which no node
\* has a finite value runs from +Infinity to -Infinity.  The canvas is drawn
\* with the extent of the current node list.
C8_ExtentPadsPerAxis ==
    LET ext == Extent(nodes)
        V(col) == {ToNumber(nodes[i][col]).n :
                      i \in {j \in 1..Len(nodes) : IsFinite(ToNumber(nodes[j][col]))}}
        Lo(S) == CHOOSE v \in S : \A u \in S : v <= u
        Hi(S) == CHOOSE v \in S : \A u \in S : u <= v
        Pad(S) == IF Hi(S) = Lo(S) THEN PadNum ELSE (Hi(S) - Lo(S)) * PadNum
        Padded(S, lo, hi) ==
            IF S = {} THEN lo = PosInf /\ hi = NegInf
            ELSE /\ lo = Num(Lo(S) * PadDen - Pad(S))
                 /\ hi = Num(Hi(S) * PadDen + Pad(S))
    IN  /\ drawn.extent = ext
        /\ IF nodes = <<>>
           THEN ext = [xmin |-> Num(-PadDen), xmax |-> Num(PadDen),
                       ymin |-> Num(-PadDen), ymax |-> Num(PadDen)]
           ELSE /\ Padded(V("x_KPCA"), ext.xmin, ext.xmax)
                /\ Padded(V("y_KPCA"), ext.ymin, ext.ymax)

\* C8 happens: nodes were loaded whose x values are all equal and whose y
\* values are not, and the canvas was drawn with their extent.
C8_ZeroSpanAxis ==
    /\ Len(nodes) > 1
    /\ \A i \in 1..Len(nodes) : HasFinitePos(nodes[i])
    /\ \A i, j \in 1..Len(nodes) : nodes[i]["x_KPCA"] = nodes[j]["x_KPCA"]
    /\ \E i, j \in 1..Len(nodes) : nodes[i]["y_KPCA"] # nodes[j]["y_KPCA"]
    /\ drawn.extent = Extent(nodes)
    /\ drawn.extent.xmax.n - drawn.extent.xmin.n = 2 * PadNum

\* C9: with the ellipses shown, every cluster that has an ellipse is coloured
\* with the palette entry at (index of its id among the sorted cluster ids of
\* the node list) modulo the palette size, so that the colours depend on the
\* set of cluster ids of the node list alone.
C9_ColourByClusterIdSet ==
    (showEllipses /\ ~EllipsesThrows(nodes, showEllipses)) =>
        LET ells == Ellipses(nodes, showEllipses)
            m    == ClusterColorById(ells)
            ids  == {ClusterKey(nodes[i]) : i \in {j \in 1..Len(nodes) : HasCluster(nodes[j])}}
            Rank(c) == Cardinality({d \in ids : StrLess(d, c)})
        IN  \A i \in 1..Len(ells) :
                /\ ells[i].cid \in DOMAIN m
                /\ m[ells[i].cid] = CLUSTER_PASTELS[(Rank(ells[i].cid) % Len(CLUSTER_PASTELS)) + 1]

\* C9 as the code has it: the colours are assigned over the ids of the
\* ellipses, that is of the clusters with more than 2 nodes of finite
\* position while the ellipses are shown: each such id maps to the palette
\* entry at (index of the id among these ids sorted as strings) modulo the
\* palette size, no other id has a colour, and the node list in another
\* order gives the same mapping.
C9_ColourByEllipseIdSet ==
    ~EllipsesThrows(nodes, showEllipses) =>
        LET ells == Ellipses(nodes, showEllipses)
            m    == ClusterColorById(ells)
            ids  == {ells[i].cid : i \in 1..Len(ells)}
            Rank(c) == Cardinality({d \in ids : StrLess(d, c)})
            rev  == [i \in 1..Len(nodes) |-> nodes[Len(nodes) + 1 - i]]
        IN  /\ DOMAIN m = ids
            /\ \A c \in ids : m[c] = CLUSTER_PASTELS[(Rank(c) % Len(CLUSTER_PASTELS)) + 1]
            /\ ClusterColorById(Ellipses(rev, showEllipses)) = m

\* C9 happens: more ellipses than palette entries are shown, so that the
\* palette wraps around, and ids of one and of two digits are among them.
C9_PaletteWraps ==
    /\ showEllipses
    /\ ~EllipsesThrows(nodes, showEllipses)
    /\ Len(Ellipses(nodes, showEllipses)) > Len(CLUSTER_PASTELS)
    /\ ClusterColorById(Ellipses(nodes, showEllipses))[<<"1", "1">>] = CLUSTER_PASTELS[3]

\* C10: every drawn node is filled with the gray sentinel when its cell for
\* the active trait is missing, empty or no number, and otherwise with the
\* colormap colour of (score - 1) / 8 clamped to [0, 1].
C10_FillIsTraitColorOfScore ==
    LET vis == SelectSeq(nodes, HasFinitePos)
        fills == Fills(nodes, trait)
    IN  /\ Len(fills) = Len(vis)
        /\ \A i \in 1..Len(vis) :
              LET cell == Get(vis[i], trait)
              IN  fills[i] = IF IsNullish(cell) \/ ToNumber(cell).t = "NaN"
                             THEN GrayFill
                             ELSE Viridis(ToNumber(cell).n - 1, 8)

\* C11: the radar data is 8 {trait label, value} pairs in the order of
\* TRAITS; every value is 0 when nothing is selected or the selected id is
\* the id of no loaded node; otherwise the values are those of the node the
\* id resolves to (the last of the list that carries it): its score for the
\* trait, or 0 when the score is missing, empty or no number.
C11_RadarDataOfSelection ==
    LET rd   == RadarData(nodes, selectedId)
        hits == {i \in 1..Len(nodes) : JsString(nodes[i]["id"]) = selectedId}
        sel  == CHOOSE i \in hits : \A j \in hits : j <= i
        Score(k) == Get(nodes[sel], TRAITS[k])
    IN  /\ Len(rd) = 8
        /\ [k \in 1..8 |-> rd[k].trait] =
              <<"Hyperrealism", "Sensory Sensitivity", "Empathy", "Systemizing",
                "Attention", "Flexibility", "Motivation", "Visual Thinking">>
        /\ \A k \in 1..8 :
              rd[k].value =
                  IF selectedId = <<>> \/ hits = {} THEN Num(0)
                  ELSE IF IsNullish(Score(k)) \/ ToNumber(Score(k)).t = "NaN" THEN Num(0)
                  ELSE ToNumber(Score(k))

\* C11 happens: the selected id resolves to a node that has an empty score
\* cell, a score that is text and a score that is a number other than 0.
C11_SelectedWithGaps ==
    /\ selectedId # <<>>
    /\ NodeById(nodes, selectedId) # 0
    /\ LET n == nodes[NodeById(nodes, selectedId)]
       IN  /\ \E t \in Range(TRAITS) : Get(n, t) = Null
           /\ \E t \in Range(TRAITS) : Get(n, t).t = "string"
           /\ \E t \in Range(TRAITS) : RadarData(nodes, selectedId)[IndexIn(TRAITS, t)].value = Num(9)

\* C12: the selection is one identifier or none.  A step changes it only as
\* a click that picked a node (to the id picked), the "Select user" control
\* (to an offered id or to none) or the "Focus your profile" button (to
\* "User 1"), and such a step leaves the load, the lists and the appearance
\* controls alone; a step of the load or of an appearance control leaves the
\* selection alone; appearance controls and clicks leave the node and edge
\* lists alone; a click that picked no node leaves the selection as it was.
C12_SelectionFrame ==
    [][ /\ selectedId' \in {<<>>, <<"U", "s", "e", "r", " ", "1">>} \cup UserOptionIds(nodes')
        /\ selectedId' # selectedId =>
              /\ UNCHANGED <<loadVars, dataVars, viewVars>>
              /\ \/ /\ hit' # <<>>
                    /\ hit'[1].bestId # <<>>
                    /\ selectedId' = hit'[1].bestId
                 \/ /\ hit' = hit
                    /\ selectedId' \in {<<>>, <<"U", "s", "e", "r", " ", "1">>} \cup UserOptionIds(nodes)
        /\ (loadVars' # loadVars \/ viewVars' # viewVars) => selectedId' = selectedId
        /\ (viewVars' # viewVars \/ hit' # hit) => UNCHANGED dataVars
        /\ (hit' # hit /\ hit'[1].bestId = <<>>) => selectedId' = selectedId
      ]_vars

\* C12 happens: with data loaded and appearance controls changed, a
\* selection was made and a later click that picked no node left it.
C12_KeptAfterEmptyPick ==
    /\ hit # <<>>
    /\ hit[1].nodes # <<>>
    /\ hit[1].bestId = <<>>
    /\ selectedId # <<>>
    /\ pointSize # 5 /\ ~showEdges /\ ~showEllipses /\ edgeScale # 10 /\ trait # TRAITS[1]

\* C13: for every loaded node list the four bounds of the extent are finite
\* with xmin < xmax and ymin < ymax, and sx and sy give a finite pixel
\* coordinate for every finite input.
C13_ExtentIsFiniteBox ==
    LET ext == Extent(nodes)
    IN  /\ IsFinite(ext.xmin) /\ IsFinite(ext.xmax)
        /\ IsFinite(ext.ymin) /\ IsFinite(ext.ymax)
        /\ XLess(ext.xmin, ext.xmax)
        /\ XLess(ext.ymin, ext.ymax)
        /\ \A v \in -1..3 :
              /\ IsFinite(ScreenX(Num(v), ext, drawn.W))
              /\ IsFinite(ScreenY(Num(v), ext, drawn.H))

====
